---- MODULE Spec2Model ----
(***************************************************************************)
(* A model of the philosophy library: the bind registry and the engine     *)
(* connector cache of philosophy.py (Philosophy, _EngineConnector,         *)
(* PhilosophySession) and the table naming of model.py.                    *)
(*                                                                         *)
(* Python values are modelled as follows.  None is the string "None".      *)
(* A dict is a function whose DOMAIN is the set of keys present.  Objects  *)
(* that the code compares by identity (states, connectors, engines) are    *)
(* numbered in order of creation and 0 stands for "no object".             *)
(***************************************************************************)
EXTENDS Integers, Sequences, FiniteSets, TLC

Null == "None"
\* "no object": the None held by a field that refers to an object
NoObj == 0

\* ------------------------------------------------------------------ bounds
MaxEngines == 3
MaxConnectors == 3
MaxStates == 2
MaxEdits == 2
MaxLen == 4
MaxClasses == 2

\* ------------------------------------------------------------ value domains
Adapters == {"a1", "a2"}
Facades == {"db1", "db2"}
BindKeys == {"foo", "bar"}
BindArgs == {Null} \cup BindKeys
MemoryURI == "sqlite://"
FileURI == "sqlite:///app.db"
MysqlURI == "mysql://localhost/app"
URIs == {MemoryURI, FileURI, MysqlURI}

EmptyDict == [k \in {} |-> Null]

\* dict.get(key): the value, or None when the key is absent
DictGet(d, k) == IF k \in DOMAIN d THEN d[k] ELSE Null

\* dict.update(other): the keys of other win
DictUpdate(d, other) ==
  [k \in (DOMAIN d) \cup (DOMAIN other) |->
      IF k \in DOMAIN other THEN other[k] ELSE d[k]]

\* dict.setdefault(key, value)
DictSetDefault(d, k, v) ==
  [x \in (DOMAIN d) \cup {k} |-> IF x \in DOMAIN d THEN d[x] ELSE v]

\* d[key] = value
DictSet(d, k, v) == [x \in (DOMAIN d) \cup {k} |-> IF x = k THEN v ELSE d[x]]

Ok(v) == [exc |-> "none", value |-> v]
Raise(e) == [exc |-> e, value |-> Null]

\* ------------------------------------------------------------- the state
VARIABLES
  config,      \* adapter -> its config dict (PhilosophyAdapter.config)
  facade,      \* Philosophy objects: adapter, _engine_options, async_
  ext,         \* adapter -> adapter.extensions["sqlalchemy"] (a state id or 0)
  pstates,     \* the _PhilosophyState objects, in order of creation
  connectors,  \* the _EngineConnector objects, in order of creation
  engines,     \* the engines built by create_engine, in order of creation
  store,       \* engine -> the tables present in the store behind it
  tables,      \* Model.metadata.tables: table name -> info["bind_key"]
  session,     \* the session object made by the facade's session factory
  ret,         \* what the last completed operation returned or raised
  edits,       \* number of configuration edits made by the host so far
  returned,    \* connector -> the signature and engine of its last return
  pc,          \* thread -> its position inside Philosophy.get_engine
  frame,       \* thread -> the local variables of its get_engine call
  engine_lock, \* facade -> the thread holding Philosophy._engine_lock
  received,    \* thread -> bind -> the engine its last get_engine returned
  classes,     \* the model classes defined so far, in order of definition
  classname,   \* the class name handed to the naming resolver
  table_name   \* the table name the naming resolver produced

engineVars == <<config, facade, ext, pstates, connectors, engines, store,
                tables, session, ret, edits, returned>>
threadVars == <<pc, frame, engine_lock, received>>
hostVars == <<config, facade, ext, tables, session, edits, returned>>
namingVars == <<classes, classname, table_name>>
vars == <<config, facade, ext, pstates, connectors, engines, store, tables,
          session, ret, edits, returned, pc, frame, engine_lock, received,
          classes, classname, table_name>>

\* ------------------------------------------------------- url and options
\* sqlalchemy.engine.url.make_url: the parsed URL of a connection string.
\* A uri of None is no connection string: the URL cannot be built.
make_url(uri) ==
  IF uri = MemoryURI
    THEN Ok([drivername |-> "sqlite", database |-> Null, query |-> EmptyDict])
  ELSE IF uri = FileURI
    THEN Ok([drivername |-> "sqlite", database |-> "app.db", query |-> EmptyDict])
  ELSE IF uri = MysqlURI
    THEN Ok([drivername |-> "mysql", database |-> "app", query |-> EmptyDict])
  ELSE Raise("ArgumentError")

\* str.startswith("mysql") over the driver names of the model
StartsWithMysql(drivername) ==
  drivername \in {"mysql", "mysql+pymysql", "mysql+gaerdbms"}

\* options["connect_args"]["check_same_thread"] = False, the dict being
\* created when absent
WithCheckSameThread(options) ==
  IF "connect_args" \in DOMAIN options
    THEN DictSet(options, "connect_args",
                 options["connect_args"] \cup {"check_same_thread=False"})
    ELSE DictSet(options, "connect_args", {"check_same_thread=False"})

\* Philosophy.apply_driver_hacks(adapter, sa_url, options): the options and
\* the url as the hook leaves them, or the exception it raises.
apply_driver_hacks(sa_url, options) ==
  IF StartsWithMysql(sa_url.drivername) THEN
    LET url1 == [sa_url EXCEPT !.query = DictSetDefault(@, "charset", "utf8")]
    IN IF sa_url.drivername # "mysql+gaerdbms"
         THEN [exc |-> "none", sa_url |-> url1,
               options |-> DictSetDefault(
                              DictSetDefault(options, "pool_size", "10"),
                              "pool_recycle", "7200")]
         ELSE [exc |-> "none", sa_url |-> url1, options |-> options]
  ELSE IF sa_url.drivername = "sqlite" THEN
    LET pool_size == DictGet(options, "pool_size")
    IN IF sa_url.database \in {Null, "", ":memory:"} THEN
         IF pool_size = "0"
           THEN [exc |-> "RuntimeError", sa_url |-> sa_url, options |-> options]
           ELSE [exc |-> "none", sa_url |-> sa_url,
                 options |-> WithCheckSameThread(
                                DictSet(options, "poolclass", "StaticPool"))]
       ELSE IF pool_size \in {Null, "0"}
         THEN [exc |-> "none", sa_url |-> sa_url,
               options |-> DictSet(options, "poolclass", "NullPool")]
         ELSE [exc |-> "none", sa_url |-> sa_url, options |-> options]
  ELSE [exc |-> "none", sa_url |-> sa_url, options |-> options]

\* the options dict as get_options has it after the hook and the echo flag
HookOptions(sa_url, echo) ==
  LET hacked == apply_driver_hacks(sa_url, EmptyDict)
  IN IF echo THEN DictSet(hacked.options, "echo", "True") ELSE hacked.options

\* get_options with the two updates in the other order: the adapter's
\* options win over the facade's
get_options_adapter_last(f, a, sa_url, echo) ==
  LET hacked == apply_driver_hacks(sa_url, EmptyDict)
  IN IF hacked.exc # "none"
       THEN [exc |-> hacked.exc, sa_url |-> sa_url, options |-> EmptyDict]
       ELSE [exc |-> "none", sa_url |-> hacked.sa_url,
             options |-> DictUpdate(
                            DictUpdate(HookOptions(sa_url, echo),
                                       facade[f].engine_options),
                            config[a].engine_options)]

\* _EngineConnector.get_options(sa_url, echo) of a connector of facade f on
\* adapter a: the hook's options, then the echo flag, then the adapter's
\* SQLALCHEMY_ENGINE_OPTIONS, then the facade's _engine_options.
get_options(f, a, sa_url, echo) ==
  LET hacked == apply_driver_hacks(sa_url, EmptyDict)
  IN IF hacked.exc # "none"
       THEN [exc |-> hacked.exc, sa_url |-> sa_url, options |-> EmptyDict]
       ELSE [exc |-> "none", sa_url |-> hacked.sa_url,
             options |-> DictUpdate(
                            DictUpdate(HookOptions(sa_url, echo),
                                       config[a].engine_options),
                            facade[f].engine_options)]

\* sqlalchemy.create_engine(sa_url, **engine_opts) rejects a pool_size
\* argument when the pool class is one that takes no size.
create_engine_accepts(sa_url, options) ==
  ~ ("pool_size" \in DOMAIN options
     /\ DictGet(options, "poolclass") \in {"StaticPool", "NullPool"})

\* get_uri with binds.get(bind, default uri) in place of the assertion
get_uri_fallback(a, bind) ==
  IF bind = Null THEN Ok(config[a].uri)
  ELSE IF bind \in DOMAIN config[a].binds THEN Ok(config[a].binds[bind])
  ELSE Ok(config[a].uri)

\* _EngineConnector.get_uri() of a connector for bind key bind on adapter a
get_uri(a, bind) ==
  IF bind = Null THEN Ok(config[a].uri)
  ELSE IF bind \in DOMAIN config[a].binds THEN Ok(config[a].binds[bind])
  ELSE Raise("AssertionError")

\* the (uri, echo) tuple kept in _connected_for; None until an engine is built
NotConnected == [set |-> FALSE, uri |-> Null, echo |-> FALSE]
Signature(uri, echo) == [set |-> TRUE, uri |-> uri, echo |-> echo]

\* the comparison with the echo flag left out: uri == self._connected_for[0]
SameSignature_uri_only(uri, echo, connected_for) ==
  connected_for.set /\ connected_for.uri = uri

\* (uri, echo) == self._connected_for
SameSignature(uri, echo, connected_for) == Signature(uri, echo) = connected_for

\* ----------------------------------------------------- engine connectors
\* The objects get_engine reads and writes, handed from call to call.
World == [pstates |-> pstates, connectors |-> connectors,
          engines |-> engines, store |-> store]

\* what a get_engine call hands back: the objects as it leaves them, the
\* exception raised ("none": it returned), the engine returned, the uri it
\* resolved and whether it built an engine
Outcome(w, exc, engine, uri, built) ==
  [w |-> w, exc |-> exc, engine |-> engine, uri |-> uri, built |-> built]

\* Philosophy.get_adapter(adapter) of facade f
get_adapter(f, adapter) ==
  IF facade[f].adapter # Null THEN Ok(facade[f].adapter)
  ELSE Raise("RuntimeError")

\* get_state(adapter): adapter.extensions["sqlalchemy"]
get_state(a) ==
  IF ext[a] # NoObj THEN [exc |-> "none", value |-> ext[a]]
  ELSE [exc |-> "AssertionError", value |-> NoObj]

\* _EngineConnector.__init__(philosophy, adapter, bind)
EngineConnector(f, a, bind) ==
  [philosophy |-> f, adapter |-> a, bind |-> bind, engine |-> NoObj,
   connected_for |-> NotConnected, lock |-> Null]

\* Philosophy.make_connector(adapter, bind) of facade f
make_connector(f, adapter, bind) ==
  EngineConnector(f, get_adapter(f, adapter).value, bind)

\* The engine object create_engine returns for connector c.
NewEngine(c, uri, sa_url, options) ==
  [uri |-> uri, url |-> sa_url, options |-> options,
   async_ |-> facade[c.philosophy].async_, bind |-> c.bind]

\* the engine stored without its (uri, echo) pair: _connected_for is left
\* as it was
StoreEngine_signature_forgotten(w, cid, uri, echo, sa_url, options) ==
  [w EXCEPT !.engines = Append(@, NewEngine(w.connectors[cid], uri, sa_url, options)),
            !.store = Append(@, {}),
            !.connectors[cid].engine = Len(w.engines) + 1]

\* self._engine = rv = create_engine(sa_url, options);
\* self._connected_for = (uri, echo)
StoreEngine(w, cid, uri, echo, sa_url, options) ==
  [w EXCEPT !.engines = Append(@, NewEngine(w.connectors[cid], uri, sa_url, options)),
            !.store = Append(@, {}),
            !.connectors[cid].engine = Len(w.engines) + 1,
            !.connectors[cid].connected_for = Signature(uri, echo)]

\* the same with self._connected_for = (uri, echo) assigned before the
\* engine is created: a failed construction leaves the new pair behind
BuildEngine_signature_first(w, cid, uri, echo, external_ok) ==
  LET c == w.connectors[cid]
      parsed == make_url(uri)
      marked == [w EXCEPT !.connectors[cid].connected_for = Signature(uri, echo)]
  IN IF parsed.exc # "none"
       THEN Outcome(marked, parsed.exc, NoObj, uri, FALSE)
     ELSE LET o == get_options(c.philosophy, c.adapter, parsed.value, echo)
          IN IF o.exc # "none"
               THEN Outcome(marked, o.exc, NoObj, uri, FALSE)
             ELSE IF ~ create_engine_accepts(o.sa_url, o.options)
               THEN Outcome(marked, "TypeError", NoObj, uri, FALSE)
             ELSE IF ~ external_ok
               THEN Outcome(marked, "EngineError", NoObj, uri, FALSE)
             ELSE Outcome(StoreEngine(w, cid, uri, echo, o.sa_url, o.options),
                          "none", Len(w.engines) + 1, uri, TRUE)

\* The second half of _EngineConnector.get_engine(), from make_url(uri) to
\* return rv.  external_ok: whether the database library builds the engine
\* when asked to.
BuildEngine(w, cid, uri, echo, external_ok) ==
  LET c == w.connectors[cid]
      parsed == make_url(uri)
  IN IF parsed.exc # "none"
       THEN Outcome(w, parsed.exc, NoObj, uri, FALSE)
     ELSE LET o == get_options(c.philosophy, c.adapter, parsed.value, echo)
          IN IF o.exc # "none"
               THEN Outcome(w, o.exc, NoObj, uri, FALSE)
             ELSE IF ~ create_engine_accepts(o.sa_url, o.options)
               THEN Outcome(w, "TypeError", NoObj, uri, FALSE)
             ELSE IF ~ external_ok
               THEN Outcome(w, "EngineError", NoObj, uri, FALSE)
             ELSE Outcome(StoreEngine(w, cid, uri, echo, o.sa_url, o.options),
                          "none", Len(w.engines) + 1, uri, TRUE)

\* _EngineConnector.get_engine() of connector cid, the lock taken and
\* released within the call
EngineConnector_get_engine(w, cid, external_ok) ==
  LET c == w.connectors[cid]
      u == get_uri(c.adapter, c.bind)
      echo == config[c.adapter].echo
  IN IF u.exc # "none" THEN Outcome(w, u.exc, NoObj, "unresolved", FALSE)
     ELSE IF SameSignature(u.value, echo, c.connected_for)
       THEN Outcome(w, "none", c.engine, u.value, FALSE)
     ELSE BuildEngine(w, cid, u.value, echo, external_ok)

\* state.connectors.get(bind), and when there is none
\* state.connectors[bind] = make_connector(adapter, bind)
WithConnector(w, f, a, sid, bind) ==
  IF w.pstates[sid].connectors[bind] # NoObj THEN w
  ELSE [w EXCEPT !.connectors = Append(@, make_connector(f, a, bind)),
                 !.pstates[sid].connectors[bind] = Len(w.connectors) + 1]

\* Philosophy.get_engine(adapter, bind) of facade f, as one call
Philosophy_get_engine(w, f, adapter, bind, external_ok) ==
  LET ad == get_adapter(f, adapter)
  IN IF ad.exc # "none" THEN Outcome(w, ad.exc, NoObj, "unresolved", FALSE)
     ELSE LET st == get_state(ad.value)
          IN IF st.exc # "none" THEN Outcome(w, st.exc, NoObj, "unresolved", FALSE)
             ELSE LET w1 == WithConnector(w, f, ad.value, st.value, bind)
                  IN EngineConnector_get_engine(
                        w1, w1.pstates[st.value].connectors[bind], external_ok)

\* -------------------------------------------------------- configurations
\* The option dicts a host passes as SQLALCHEMY_ENGINE_OPTIONS.
AdapterOptionChoices ==
  { EmptyDict,
    [k \in {"pool_size"} |-> "0"],
    [k \in {"pool_size", "poolclass"} |->
        IF k = "pool_size" THEN "0" ELSE "QueuePool"],
    [k \in {"pool_size", "poolclass", "echo"} |->
        IF k = "pool_size" THEN "5"
        ELSE IF k = "poolclass" THEN "SingletonThreadPool" ELSE "debug"] }

\* The option dicts a host passes as Philosophy(engine_options=...).
FacadeOptionChoices ==
  { EmptyDict,
    [k \in {"pool_size", "poolclass"} |->
        IF k = "pool_size" THEN "0" ELSE "QueuePool"],
    [k \in {"poolclass", "pool_recycle"} |->
        IF k = "poolclass" THEN "QueuePool" ELSE "60"] }

\* The SQLALCHEMY_BINDS maps a host starts with; the empty one stands for
\* a missing, None or empty SQLALCHEMY_BINDS, which line 102 reads alike.
InitialBinds ==
  { EmptyDict,
    [k \in {"foo"} |-> MemoryURI],
    [k \in {"foo", "bar"} |-> IF k = "foo" THEN MemoryURI ELSE FileURI] }

\* PhilosophyAdapter(): an adapter no one has configured
BlankConfig ==
  [uri |-> Null, binds |-> EmptyDict, echo |-> FALSE, engine_options |-> EmptyDict]

\* config.get("SQLALCHEMY_DATABASE_URI") or config.get("SQLALCHEMY_BINDS")
HasTarget(cfg) == cfg.uri # Null \/ DOMAIN cfg.binds # {}

\* _PhilosophyState(db)
PhilosophyState(f) == [db |-> f, connectors |-> [b \in BindArgs |-> NoObj]]

\* a Philosophy that has not been constructed
NoFacade ==
  [constructed |-> FALSE, adapter |-> Null, engine_options |-> EmptyDict,
   async_ |-> FALSE]

\* Philosophy(adapter, engine_options=..., use_async=...)
Philosophy(adapter, engine_options, use_async) ==
  [constructed |-> TRUE, adapter |-> adapter, engine_options |-> engine_options,
   async_ |-> use_async]

NoReturn == [set |-> FALSE, sig |-> NotConnected, engine |-> NoObj]
NoSession == [made |-> FALSE, adapter |-> Null, bind |-> NoObj]

\* the naming resolver and the threads at rest
Threads == {"t1", "t2"}
\* the locals of a get_engine call that has not started
NoFrame ==
  [facade |-> Null, bind |-> Null, adapter |-> Null, state |-> NoObj,
   connector |-> NoObj, uri |-> Null, echo |-> FALSE, exc |-> "none",
   engine |-> NoObj]
IdleThreads ==
  /\ pc = [t \in Threads |-> "idle"]
  /\ frame = [t \in Threads |-> NoFrame]
  /\ engine_lock = [f \in Facades |-> Null]
  /\ received = [t \in Threads |-> [b \in BindArgs |-> NoObj]]
IdleNaming == classes = <<>> /\ classname = <<>> /\ table_name = <<>>

\* The uris the host of the model assigns when it edits the configuration.
EditURIs == {MemoryURI, FileURI}

\* The rest of the engine state once the configuration and the facade db1
\* are chosen: db1 = Philosophy(adapter, ...) has run init_adapter(adapter)
\* when it was given an adapter, and nothing else has happened.
Constructed(adapter) ==
  /\ adapter # Null => HasTarget(config[adapter])
  /\ ext = [a \in Adapters |-> IF a = adapter THEN 1 ELSE NoObj]
  /\ pstates = IF adapter = Null THEN <<>> ELSE <<PhilosophyState("db1")>>
  /\ connectors = <<>>
  /\ engines = <<>>
  /\ store = <<>>
  /\ returned = <<>>
  /\ session = NoSession
  /\ ret = [op |-> "init"]
  /\ edits = 0

\* The state after db1 = Philosophy(adapter) on a configured adapter a1, or
\* db1 = Philosophy() with no adapter.
InitEngines ==
  /\ \E uri \in {Null, MemoryURI}, binds \in {EmptyDict, [k \in {"foo"} |-> MemoryURI]} :
       config = [a \in Adapters |->
                   IF a = "a1"
                     THEN [uri |-> uri, binds |-> binds, echo |-> FALSE,
                           engine_options |-> EmptyDict]
                     ELSE BlankConfig]
  /\ \E adapter \in {"a1", Null} :
       /\ facade = [f \in Facades |->
                      IF f = "db1" THEN Philosophy(adapter, EmptyDict, FALSE)
                      ELSE NoFacade]
       /\ Constructed(adapter)

\* ------------------------------------------------------------ operations
\* the connector a get_engine call of facade f for bind works on, if any
ConnectorOf(w, f, adapter, bind) ==
  IF get_adapter(f, adapter).exc = "none"
     /\ get_state(get_adapter(f, adapter).value).exc = "none"
    THEN w.pstates[get_state(get_adapter(f, adapter).value).value].connectors[bind]
    ELSE NoObj

\* the (uri, echo) pair the configuration holds for a bind key right now
ConfiguredSignature(a, bind) ==
  Signature(IF bind = Null THEN config[a].uri ELSE DictGet(config[a].binds, bind),
            config[a].echo)

Padded(seq, n, filler) ==
  [i \in 1..n |-> IF i <= Len(seq) THEN seq[i] ELSE filler]

WithinBounds(w) ==
  /\ Len(w.engines) <= MaxEngines
  /\ Len(w.connectors) <= MaxConnectors

\* db.get_engine(adapter, bind) called by the host on facade f
GetEngine(f, adapter, bind) ==
  /\ facade[f].constructed
  /\ \E external_ok \in BOOLEAN :
       LET r == Philosophy_get_engine(World, f, adapter, bind, external_ok)
           cid == ConnectorOf(r.w, f, adapter, bind)
           a == facade[f].adapter
           before == IF cid # NoObj /\ cid <= Len(returned)
                       THEN returned[cid] ELSE NoReturn
       IN /\ WithinBounds(r.w)
          /\ pstates' = r.w.pstates
          /\ connectors' = r.w.connectors
          /\ engines' = r.w.engines
          /\ store' = r.w.store
          /\ returned' =
               IF r.exc = "none"
                 THEN [Padded(returned, Len(r.w.connectors), NoReturn) EXCEPT
                         ![cid] = [set |-> TRUE, sig |-> ConfiguredSignature(a, bind),
                                   engine |-> r.engine]]
                 ELSE Padded(returned, Len(r.w.connectors), NoReturn)
          /\ ret' = [op |-> "get_engine", facade |-> f, adapter |-> adapter,
                     bind |-> bind, exc |-> r.exc, engine |-> r.engine,
                     uri |-> r.uri, built |-> r.built, connector |-> cid,
                     fresh |-> r.engine > Len(engines),
                     sig |-> IF r.exc = "none" THEN ConfiguredSignature(a, bind)
                             ELSE NotConnected,
                     before |-> before]
  /\ UNCHANGED <<config, facade, ext, tables, session, edits>>

\* the host assigns config["SQLALCHEMY_DATABASE_URI"] after init_adapter
EditURI(a, uri) ==
  /\ ext[a] # NoObj
  /\ edits < MaxEdits
  /\ config[a].uri # uri
  /\ config' = [config EXCEPT ![a].uri = uri]
  /\ edits' = edits + 1
  /\ ret' = [op |-> "edit"]
  /\ UNCHANGED <<facade, ext, pstates, connectors, engines, store, tables,
                 session, returned>>

\* the host assigns another uri to config["SQLALCHEMY_BINDS"][key] after
\* init_adapter
EditBind(a, key, uri) ==
  /\ ext[a] # NoObj
  /\ edits < MaxEdits
  /\ key \in DOMAIN config[a].binds
  /\ config[a].binds[key] # uri
  /\ config' = [config EXCEPT ![a].binds = DictSet(@, key, uri)]
  /\ edits' = edits + 1
  /\ ret' = [op |-> "edit"]
  /\ UNCHANGED <<facade, ext, pstates, connectors, engines, store, tables,
                 session, returned>>

\* the host flips config["SQLALCHEMY_ECHO"] after init_adapter
EditEcho(a) ==
  /\ ext[a] # NoObj
  /\ edits < MaxEdits
  /\ config' = [config EXCEPT ![a].echo = ~ @]
  /\ edits' = edits + 1
  /\ ret' = [op |-> "edit"]
  /\ UNCHANGED <<facade, ext, pstates, connectors, engines, store, tables,
                 session, returned>>

\* Philosophy.init_adapter(adapter) of facade f: the facade's own adapter
\* field is left alone; the adapter's state is replaced by a new one.
InitAdapter(f, a) ==
  /\ facade[f].constructed
  /\ IF ~ HasTarget(config[a])
       THEN /\ ret' = [op |-> "init_adapter", facade |-> f, adapter |-> a,
                       exc |-> "RuntimeError"]
            /\ UNCHANGED <<ext, pstates>>
       ELSE /\ Len(pstates) < MaxStates
            /\ pstates' = Append(pstates, PhilosophyState(f))
            /\ ext' = [ext EXCEPT ![a] = Len(pstates) + 1]
            /\ ret' = [op |-> "init_adapter", facade |-> f, adapter |-> a,
                       exc |-> "none"]
  /\ UNCHANGED <<config, facade, connectors, engines, store, tables, session,
                 edits, returned>>

Init ==
  /\ InitEngines
  /\ tables = EmptyDict
  /\ IdleThreads
  /\ IdleNaming

Next ==
  \/ \E f \in Facades, bind \in BindArgs :
       GetEngine(f, Null, bind) /\ UNCHANGED <<threadVars, namingVars>>
  \/ \E a \in Adapters, uri \in EditURIs :
       EditURI(a, uri) /\ UNCHANGED <<threadVars, namingVars>>
  \/ \E a \in Adapters, key \in BindKeys, uri \in EditURIs :
       EditBind(a, key, uri) /\ UNCHANGED <<threadVars, namingVars>>
  \/ \E a \in Adapters : EditEcho(a) /\ UNCHANGED <<threadVars, namingVars>>

Spec == Init /\ [][Next]_vars

\* --------------------------------------------------- tables and sessions
\* list(adapter.config.get("SQLALCHEMY_BINDS") or ()): the keys of the bind
\* map, here in the order foo, bar
BindKeyList(a) ==
  (IF "foo" \in DOMAIN config[a].binds THEN <<"foo">> ELSE <<>>)
    \o (IF "bar" \in DOMAIN config[a].binds THEN <<"bar">> ELSE <<>>)

\* [None] + list(adapter.config.get("SQLALCHEMY_BINDS") or ())
AllBinds(a) == <<Null>> \o BindKeyList(a)

\* get_tables_for_bind returning every table of the registry
get_tables_for_bind_all(bind) == DOMAIN tables

\* Philosophy.get_tables_for_bind(bind): the tables whose info["bind_key"]
\* equals bind
get_tables_for_bind(bind) == {t \in DOMAIN tables : tables[t] = bind}

\* metadata.create_all / metadata.drop_all on one engine, for the given
\* tables: the store behind the engine afterwards
ApplyOperation(w, operation, engine, tbls) ==
  [w EXCEPT !.store[engine] =
      IF operation = "create_all" THEN @ \cup tbls ELSE @ \ tbls]

\* The loop of _execute_for_all_tables over the binds still to visit; calls
\* lists the (bind, engine, tables) of the operations applied so far.  The
\* engine construction for a bind in failing does not succeed.
\* (CHOOSE out \in {e(r) : r \in {call}} : TRUE is e applied to the result
\* of the call, the call evaluated once.)
RECURSIVE ExecuteLoop(_, _, _, _, _, _, _)
ExecuteLoop(w, f, adapter, todo, operation, failing, calls) ==
  IF todo = <<>> THEN [w |-> w, exc |-> "none", calls |-> calls]
  ELSE LET bind == Head(todo)
       IN CHOOSE out \in
            { IF r.exc # "none" THEN [w |-> r.w, exc |-> r.exc, calls |-> calls]
              ELSE ExecuteLoop(
                     ApplyOperation(r.w, operation, r.engine,
                                    get_tables_for_bind(bind)),
                     f, adapter, Tail(todo), operation, failing,
                     Append(calls, [bind |-> bind, engine |-> r.engine,
                                    tables |-> get_tables_for_bind(bind)]))
              : r \in {Philosophy_get_engine(w, f, adapter, bind,
                                             bind \notin failing)} } : TRUE

\* Philosophy._execute_for_all_tables(adapter, bind, operation) of facade f
execute_for_all_tables(w, f, adapter, bind, operation, failing) ==
  LET ad == get_adapter(f, adapter)
  IN IF ad.exc # "none" THEN [w |-> w, exc |-> ad.exc, calls |-> <<>>]
     ELSE ExecuteLoop(w, f, ad.value,
                      IF bind = "__all__" THEN AllBinds(ad.value) ELSE <<bind>>,
                      operation, failing, <<>>)

\* The loop of get_binds over the binds still to visit; retval is the
\* table -> engine dict built so far.
RECURSIVE BindsLoop(_, _, _, _, _, _)
BindsLoop(w, f, adapter, todo, failing, retval) ==
  IF todo = <<>> THEN [w |-> w, exc |-> "none", value |-> retval]
  ELSE LET bind == Head(todo)
       IN CHOOSE out \in
            { IF r.exc # "none" THEN [w |-> r.w, exc |-> r.exc, value |-> EmptyDict]
              ELSE BindsLoop(r.w, f, adapter, Tail(todo), failing,
                             DictUpdate(retval,
                                        [t \in get_tables_for_bind(bind) |-> r.engine]))
              : r \in {Philosophy_get_engine(w, f, adapter, bind,
                                             bind \notin failing)} } : TRUE

\* Philosophy.get_binds(adapter) of facade f
get_binds(w, f, adapter, failing) ==
  LET ad == get_adapter(f, adapter)
  IN IF ad.exc # "none" THEN [w |-> w, exc |-> ad.exc, value |-> EmptyDict]
     ELSE BindsLoop(w, f, ad.value, AllBinds(ad.value), failing, EmptyDict)

\* the session object: its adapter, its bind and its binds
SessionObject(f, adapter, e, b) ==
  IF b.exc # "none" THEN [w |-> b.w, exc |-> b.exc, value |-> NoSession]
  ELSE [w |-> b.w, exc |-> "none",
        value |-> [made |-> TRUE, db |-> f, adapter |-> adapter,
                   bind |-> e.engine, binds |-> b.value,
                   async_ |-> facade[f].async_]]

\* PhilosophySession.__init__ / PhilosophyAsyncSession.__init__(db): the
\* adapter, then bind = db.engine, then binds = db.get_binds(adapter)
NewSession(w, f, failing) ==
  LET ad == get_adapter(f, Null)
  IN IF ad.exc # "none" THEN [w |-> w, exc |-> ad.exc, value |-> NoSession]
     ELSE CHOOSE out \in
            { IF e.exc # "none" THEN [w |-> e.w, exc |-> e.exc, value |-> NoSession]
              ELSE CHOOSE made \in
                     { SessionObject(f, ad.value, e, b)
                       : b \in {get_binds(e.w, f, ad.value, failing)} } : TRUE
              : e \in {Philosophy_get_engine(w, f, Null, Null,
                                             Null \notin failing)} } : TRUE

\* SessionBase.get_bind / AsyncSession.get_bind: the engine the session's
\* binds dict holds for the mapper's table, else the session's own bind
DefaultGetBind(w, s, mapper) ==
  [w |-> w, exc |-> "none", path |-> "default",
   engine |-> IF mapper \in DOMAIN s.binds THEN s.binds[mapper] ELSE s.bind]

\* the engine get_bind returns for a table's own bind key
BoundGetBind(w, s, bind_key, external_ok) ==
  LET st == get_state(s.adapter)
  IN IF st.exc # "none"
       THEN [w |-> w, exc |-> st.exc, path |-> "bind_key", engine |-> NoObj]
       ELSE LET r == Philosophy_get_engine(w, w.pstates[st.value].db, s.adapter,
                                           bind_key, external_ok)
            IN [w |-> r.w, exc |-> r.exc, path |-> "bind_key", engine |-> r.engine]

\* the synchronous get_bind with the bind key never looked at
Session_get_bind_default_only(w, s, mapper, external_ok) ==
  DefaultGetBind(w, s, mapper)

\* PhilosophySession.get_bind(mapper): mapper is None or the table the
\* mapper persists to
Session_get_bind(w, s, mapper, external_ok) ==
  IF mapper # Null /\ DictGet(tables, mapper) # Null
    THEN BoundGetBind(w, s, DictGet(tables, mapper), external_ok)
    ELSE DefaultGetBind(w, s, mapper)

\* PhilosophyAsyncSession.get_bind(mapper)
AsyncSession_get_bind(w, s, mapper, external_ok) ==
  IF mapper # Null /\ DictGet(tables, mapper) # Null
    THEN BoundGetBind(w, s, DictGet(tables, mapper), external_ok)
    ELSE DefaultGetBind(w, s, mapper)

\* at most one engine construction of an operation fails: the first failure
\* ends the operation
FailureChoices == {{}} \cup {{b} : b \in BindArgs}

SetWorld(w) ==
  /\ pstates' = w.pstates
  /\ connectors' = w.connectors
  /\ engines' = w.engines
  /\ store' = w.store
  /\ returned' = Padded(returned, Len(w.connectors), NoReturn)

AllStoresEmpty == \A e \in 1..Len(store) : store[e] = {}

\* db.create_all(bind) / db.drop_all(bind) called by the host on facade f
ExecuteForAllTables(f, bind, operation) ==
  /\ facade[f].constructed
  /\ \E failing \in FailureChoices :
       \E r \in {execute_for_all_tables(World, f, Null, bind, operation, failing)} :
          /\ WithinBounds(r.w)
          /\ SetWorld(r.w)
          /\ ret' = [op |-> operation, facade |-> f, bind |-> bind,
                     exc |-> r.exc, calls |-> r.calls,
                     clean |-> AllStoresEmpty,
                     follows |-> /\ operation = "drop_all"
                                 /\ ret.op = "create_all"
                                 /\ ret.exc = "none"
                                 /\ ret.bind = bind
                                 /\ ret.clean]
  /\ UNCHANGED <<config, facade, ext, tables, session, edits>>

\* db.get_binds(adapter) called by the host on facade f
GetBinds(f) ==
  /\ facade[f].constructed
  /\ \E failing \in FailureChoices :
       \E r \in {get_binds(World, f, Null, failing)} :
          /\ WithinBounds(r.w)
          /\ SetWorld(r.w)
          /\ ret' = [op |-> "get_binds", facade |-> f, exc |-> r.exc,
                     binds |-> r.value]
  /\ UNCHANGED <<config, facade, ext, tables, session, edits>>

\* db.session(): the session factory of facade f makes the session
MakeSession(f) ==
  /\ facade[f].constructed
  /\ ~ session.made
  /\ \E failing \in FailureChoices :
       \E r \in {NewSession(World, f, failing)} :
          /\ WithinBounds(r.w)
          /\ SetWorld(r.w)
          /\ session' = r.value
          /\ ret' = [op |-> "session", facade |-> f, exc |-> r.exc]
  /\ UNCHANGED <<config, facade, ext, tables, edits>>

\* session.get_bind(mapper), the session being of the class the facade's
\* async_ flag selected
GetBind(mapper) ==
  /\ session.made
  /\ \E external_ok \in BOOLEAN :
       \E r \in {IF session.async_
                  THEN AsyncSession_get_bind(World, session, mapper, external_ok)
                  ELSE Session_get_bind(World, session, mapper, external_ok)} :
          /\ WithinBounds(r.w)
          /\ SetWorld(r.w)
          /\ ret' = [op |-> "get_bind", facade |-> session.db, mapper |-> mapper,
                     exc |-> r.exc, path |-> r.path, engine |-> r.engine]
  /\ UNCHANGED <<config, facade, ext, tables, session, edits>>

\* The metadata registries of the model: the three classes of
\* test_basic_binds, and the Todo class of conftest.py.
TableChoices ==
  { [t \in {"foo", "bar", "baz"} |-> IF t = "baz" THEN Null ELSE t],
    [t \in {"todos"} |-> Null] }

\* db1 = Philosophy(a1, use_async=...) with model classes defined
InitTables ==
  /\ \E uri \in {Null, MemoryURI}, binds \in InitialBinds :
       config = [a \in Adapters |->
                   IF a = "a1"
                     THEN [uri |-> uri, binds |-> binds, echo |-> FALSE,
                           engine_options |-> EmptyDict]
                     ELSE BlankConfig]
  /\ \E use_async \in BOOLEAN :
       facade = [f \in Facades |->
                   IF f = "db1" THEN Philosophy("a1", EmptyDict, use_async)
                   ELSE NoFacade]
  /\ Constructed("a1")
  /\ tables \in TableChoices
  /\ IdleThreads
  /\ IdleNaming

NextTables ==
  \/ \E bind \in {"__all__"}, operation \in {"create_all", "drop_all"} :
       ExecuteForAllTables("db1", bind, operation)
         /\ UNCHANGED <<threadVars, namingVars>>
  \/ GetBinds("db1") /\ UNCHANGED <<threadVars, namingVars>>
  \/ MakeSession("db1") /\ UNCHANGED <<threadVars, namingVars>>
  \/ \E mapper \in {Null} \cup DOMAIN tables :
       GetBind(mapper) /\ UNCHANGED <<threadVars, namingVars>>
  \/ \E key \in BindKeys, uri \in EditURIs :
       EditBind("a1", key, uri) /\ UNCHANGED <<threadVars, namingVars>>

SpecTables == InitTables /\ [][NextTables]_vars

\* ------------------------------------------- engine options: a second start
\* db1 = Philosophy(a1, engine_options=...) on an adapter whose default uri,
\* echo flag and SQLALCHEMY_ENGINE_OPTIONS the host has chosen.
InitOptions ==
  /\ \E uri \in URIs, echo \in BOOLEAN, opts \in AdapterOptionChoices :
       config = [a \in Adapters |->
                   IF a = "a1"
                     THEN [uri |-> uri, binds |-> [k \in {"foo"} |-> FileURI],
                           echo |-> echo, engine_options |-> opts]
                     ELSE BlankConfig]
  /\ \E opts \in FacadeOptionChoices :
       facade = [f \in Facades |->
                   IF f = "db1" THEN Philosophy("a1", opts, FALSE) ELSE NoFacade]
  /\ Constructed("a1")
  /\ tables = EmptyDict
  /\ IdleThreads
  /\ IdleNaming

NextOptions ==
  \/ \E bind \in {Null, "foo"} :
       GetEngine("db1", Null, bind) /\ UNCHANGED <<threadVars, namingVars>>
  \/ \E uri \in URIs :
       EditURI("a1", uri) /\ UNCHANGED <<threadVars, namingVars>>

SpecOptions == InitOptions /\ [][NextOptions]_vars

\* ---------------------------------------------------------------- threads
\* Philosophy.get_engine run by threads, one step per statement that reads
\* or writes an object another thread can reach.

\* Lock.acquire() proceeds when no thread holds the lock
CanAcquire_unlocked(holder) == TRUE

CanAcquire(holder) == holder = Null

\* the call of thread t returns engine or raises exc
Returns(t, f, bind, exc, engine) ==
  /\ ret' = [op |-> "thread_get_engine", thread |-> t, facade |-> f,
             bind |-> bind, exc |-> exc, engine |-> engine]
  /\ received' = IF exc = "none" THEN [received EXCEPT ![t][bind] = engine]
                 ELSE received
  /\ pc' = [pc EXCEPT ![t] = "idle"]
  /\ frame' = [frame EXCEPT ![t] = NoFrame]

\* adapter = self.get_adapter(adapter); state = get_state(adapter)
T_Call(t, f, bind) ==
  /\ pc[t] = "idle"
  /\ facade[f].constructed
  /\ LET ad == get_adapter(f, Null)
     IN IF ad.exc # "none" THEN Returns(t, f, bind, ad.exc, NoObj)
        ELSE IF get_state(ad.value).exc # "none"
          THEN Returns(t, f, bind, get_state(ad.value).exc, NoObj)
        ELSE /\ pc' = [pc EXCEPT ![t] = "acquire"]
             /\ frame' = [frame EXCEPT ![t] =
                            [NoFrame EXCEPT !.facade = f, !.bind = bind,
                                            !.adapter = ad.value,
                                            !.state = get_state(ad.value).value]]
             /\ UNCHANGED <<ret, received>>
  /\ UNCHANGED <<hostVars, pstates, connectors, engines, store, engine_lock>>

\* with self._engine_lock:
T_Acquire(t) ==
  /\ pc[t] = "acquire"
  /\ CanAcquire(engine_lock[frame[t].facade])
  /\ engine_lock' = [engine_lock EXCEPT ![frame[t].facade] = t]
  /\ pc' = [pc EXCEPT ![t] = "lookup"]
  /\ UNCHANGED <<hostVars, pstates, connectors, engines, store, ret, frame,
                 received>>

\* connector = state.connectors.get(bind)
T_Lookup(t) ==
  /\ pc[t] = "lookup"
  /\ LET cid == pstates[frame[t].state].connectors[frame[t].bind]
     IN /\ frame' = [frame EXCEPT ![t].connector = cid]
        /\ pc' = [pc EXCEPT ![t] = IF cid = NoObj THEN "make"
                                   ELSE "connector_acquire"]
  /\ UNCHANGED <<hostVars, pstates, connectors, engines, store, ret,
                 engine_lock, received>>

\* connector = self.make_connector(adapter, bind);
\* state.connectors[bind] = connector
T_Make(t) ==
  /\ pc[t] = "make"
  /\ Len(connectors) < MaxConnectors
  /\ connectors' = Append(connectors,
                          make_connector(frame[t].facade, frame[t].adapter,
                                         frame[t].bind))
  /\ pstates' = [pstates EXCEPT ![frame[t].state].connectors[frame[t].bind] =
                   Len(connectors) + 1]
  /\ frame' = [frame EXCEPT ![t].connector = Len(connectors) + 1]
  /\ pc' = [pc EXCEPT ![t] = "connector_acquire"]
  /\ UNCHANGED <<hostVars, engines, store, ret, engine_lock, received>>

\* connector.get_engine(): with self._lock:
T_ConnectorAcquire(t) ==
  /\ pc[t] = "connector_acquire"
  /\ CanAcquire(connectors[frame[t].connector].lock)
  /\ connectors' = [connectors EXCEPT ![frame[t].connector].lock = t]
  /\ pc' = [pc EXCEPT ![t] = "compare"]
  /\ UNCHANGED <<hostVars, pstates, engines, store, ret, frame, engine_lock,
                 received>>

\* uri = self.get_uri(); echo = config["SQLALCHEMY_ECHO"];
\* if (uri, echo) == self._connected_for: return self._engine
T_Compare(t) ==
  /\ pc[t] = "compare"
  /\ LET c == connectors[frame[t].connector]
         u == get_uri(c.adapter, c.bind)
         echo == config[c.adapter].echo
     IN IF u.exc # "none"
          THEN /\ frame' = [frame EXCEPT ![t].exc = u.exc]
               /\ pc' = [pc EXCEPT ![t] = "release_connector"]
        ELSE IF SameSignature(u.value, echo, c.connected_for)
          THEN /\ frame' = [frame EXCEPT ![t].engine = c.engine]
               /\ pc' = [pc EXCEPT ![t] = "release_connector"]
        ELSE /\ frame' = [frame EXCEPT ![t].uri = u.value, ![t].echo = echo]
             /\ pc' = [pc EXCEPT ![t] = "build"]
  /\ UNCHANGED <<hostVars, pstates, connectors, engines, store, ret,
                 engine_lock, received>>

\* sa_url = make_url(uri); options = self.get_options(sa_url, echo);
\* self._engine = rv = create_engine(sa_url, options);
\* self._connected_for = (uri, echo)
T_Build(t) ==
  /\ pc[t] = "build"
  /\ \E external_ok \in BOOLEAN :
       LET r == BuildEngine(World, frame[t].connector, frame[t].uri,
                            frame[t].echo, external_ok)
       IN /\ WithinBounds(r.w)
          /\ connectors' = r.w.connectors
          /\ engines' = r.w.engines
          /\ store' = r.w.store
          /\ frame' = [frame EXCEPT ![t].exc = r.exc, ![t].engine = r.engine]
  /\ pc' = [pc EXCEPT ![t] = "release_connector"]
  /\ UNCHANGED <<hostVars, pstates, ret, engine_lock, received>>

\* leaving "with self._lock:", by return or by exception
T_ReleaseConnector(t) ==
  /\ pc[t] = "release_connector"
  /\ connectors' = [connectors EXCEPT ![frame[t].connector].lock = Null]
  /\ pc' = [pc EXCEPT ![t] = "release_engine"]
  /\ UNCHANGED <<hostVars, pstates, engines, store, ret, frame, engine_lock,
                 received>>

\* leaving "with self._engine_lock:", and get_engine with it
T_ReleaseEngine(t) ==
  /\ pc[t] = "release_engine"
  /\ engine_lock' = [engine_lock EXCEPT ![frame[t].facade] = Null]
  /\ Returns(t, frame[t].facade, frame[t].bind, frame[t].exc, frame[t].engine)
  /\ UNCHANGED <<hostVars, pstates, connectors, engines, store>>

\* db1 = Philosophy(a1) on an adapter with a default uri and the bind foo
InitThreads ==
  /\ config = [a \in Adapters |->
                 IF a = "a1"
                   THEN [uri |-> MemoryURI, binds |-> [k \in {"foo"} |-> FileURI],
                         echo |-> FALSE, engine_options |-> EmptyDict]
                   ELSE BlankConfig]
  /\ facade = [f \in Facades |->
                 IF f = "db1" THEN Philosophy("a1", EmptyDict, FALSE)
                 ELSE NoFacade]
  /\ Constructed("a1")
  /\ tables = EmptyDict
  /\ IdleThreads
  /\ IdleNaming

NextThreads ==
  \/ \E t \in Threads, f \in Facades, bind \in BindArgs :
       T_Call(t, f, bind) /\ UNCHANGED namingVars
  \/ \E t \in Threads : T_Acquire(t) /\ UNCHANGED namingVars
  \/ \E t \in Threads : T_Lookup(t) /\ UNCHANGED namingVars
  \/ \E t \in Threads : T_Make(t) /\ UNCHANGED namingVars
  \/ \E t \in Threads : T_ConnectorAcquire(t) /\ UNCHANGED namingVars
  \/ \E t \in Threads : T_Compare(t) /\ UNCHANGED namingVars
  \/ \E t \in Threads : T_Build(t) /\ UNCHANGED namingVars
  \/ \E t \in Threads : T_ReleaseConnector(t) /\ UNCHANGED namingVars
  \/ \E t \in Threads : T_ReleaseEngine(t) /\ UNCHANGED namingVars

SpecThreads == InitThreads /\ [][NextThreads]_vars

\* db2 = Philosophy(adapter): the constructor ends in set_adapter(adapter),
\* which stores the adapter and runs init_adapter(adapter)
NewPhilosophy(f, adapter) ==
  /\ ~ facade[f].constructed
  /\ IF ~ HasTarget(config[adapter])
       THEN /\ ret' = [op |-> "Philosophy", facade |-> f, adapter |-> adapter,
                       exc |-> "RuntimeError"]
            /\ UNCHANGED <<facade, ext, pstates>>
       ELSE /\ Len(pstates) < MaxStates
            /\ facade' = [facade EXCEPT ![f] = Philosophy(adapter, EmptyDict, FALSE)]
            /\ pstates' = Append(pstates, PhilosophyState(f))
            /\ ext' = [ext EXCEPT ![adapter] = Len(pstates) + 1]
            /\ ret' = [op |-> "Philosophy", facade |-> f, adapter |-> adapter,
                       exc |-> "none"]
  /\ UNCHANGED <<config, connectors, engines, store, tables, session, edits,
                 returned>>

NextFacades ==
  \/ \E t \in Threads, f \in Facades :
       T_Call(t, f, Null) /\ UNCHANGED namingVars
  \/ \E t \in Threads : T_Acquire(t) /\ UNCHANGED namingVars
  \/ \E t \in Threads : T_Lookup(t) /\ UNCHANGED namingVars
  \/ \E t \in Threads : T_Make(t) /\ UNCHANGED namingVars
  \/ \E t \in Threads : T_ConnectorAcquire(t) /\ UNCHANGED namingVars
  \/ \E t \in Threads : T_Compare(t) /\ UNCHANGED namingVars
  \/ \E t \in Threads : T_Build(t) /\ UNCHANGED namingVars
  \/ \E t \in Threads : T_ReleaseConnector(t) /\ UNCHANGED namingVars
  \/ \E t \in Threads : T_ReleaseEngine(t) /\ UNCHANGED namingVars
  \/ \E f \in Facades, a \in Adapters :
       NewPhilosophy(f, a) /\ UNCHANGED <<threadVars, namingVars>>
  \/ \E f \in Facades, a \in Adapters :
       InitAdapter(f, a) /\ UNCHANGED <<threadVars, namingVars>>

SpecFacades == InitThreads /\ [][NextFacades]_vars


\* db1 = Philosophy() without an adapter, and two configured adapters that
\* no facade has been initialised on yet
InitAdapters ==
  /\ config = [a \in Adapters |->
                 [uri |-> IF a = "a1" THEN MemoryURI ELSE FileURI,
                  binds |-> IF a = "a1" THEN [k \in {"foo"} |-> FileURI]
                            ELSE [k \in {"foo"} |-> MemoryURI],
                  echo |-> FALSE, engine_options |-> EmptyDict]]
  /\ facade = [f \in Facades |->
                 IF f = "db1" THEN Philosophy(Null, EmptyDict, FALSE)
                 ELSE NoFacade]
  /\ Constructed(Null)
  /\ tables = EmptyDict
  /\ IdleThreads
  /\ IdleNaming

\* the host initialises facades on the adapters and asks them for engines,
\* naming the adapter in the call
NextAdapters ==
  \/ \E f \in Facades, a \in Adapters :
       InitAdapter(f, a) /\ UNCHANGED <<threadVars, namingVars>>
  \/ \E f \in Facades, a \in Adapters :
       NewPhilosophy(f, a) /\ UNCHANGED <<threadVars, namingVars>>
  \/ \E f \in Facades, a \in Adapters, bind \in BindArgs :
       GetEngine(f, a, bind) /\ UNCHANGED <<threadVars, namingVars>>

SpecAdapters == InitAdapters /\ [][NextAdapters]_vars

\* ----------------------------------------------------------------- naming
\* Class names are sequences of characters over a small alphabet of
\* capitals, lower-case letters and digits.
Capitals == {"A", "B"}
LowerOrDigit == {"a", "b", "1"}
Chars == Capitals \cup LowerOrDigit

\* the sequences over a set with at most n elements
SeqsUpTo(S, n) == UNION {[1..k -> S] : k \in 0..n}
ClassNames == SeqsUpTo(Chars, MaxLen) \ {<<>>}

\* the word left as it is: .lower() forgotten
lower_forgotten(word) == word

\* str.lower(), character by character
lower(word) ==
  [i \in 1..Len(word) |->
     IF word[i] = "A" THEN "a" ELSE IF word[i] = "B" THEN "b" ELSE word[i]]

\* the last index of the run of capitals that position i of name is in
RECURSIVE RunEnd(_, _)
RunEnd(name, i) ==
  IF i < Len(name) /\ name[i + 1] \in Capitals THEN RunEnd(name, i + 1) ELSE i

\* camelcase_re = ([A-Z]+)(?=[a-z0-9]) tried at position i of name: the
\* length of the match, 0 when there is none.  The group takes the whole
\* run of capitals; a shorter one would be followed by a capital.
MatchLen(name, i) ==
  IF name[i] \notin Capitals THEN 0
  ELSE IF RunEnd(name, i) < Len(name) /\ name[RunEnd(name, i) + 1] \in LowerOrDigit
    THEN RunEnd(name, i) - i + 1
  ELSE 0

\* _join(match) inside camel_to_snake_case
join(word) ==
  IF Len(word) > 1
    THEN lower(<<"_">> \o SubSeq(word, 1, Len(word) - 1) \o <<"_">>
                 \o <<word[Len(word)]>>)
    ELSE <<"_">> \o lower(word)

\* camelcase_re.sub(_join, name), from position i on
RECURSIVE sub(_, _)
sub(name, i) ==
  IF i > Len(name) THEN <<>>
  ELSE IF MatchLen(name, i) = 0 THEN <<name[i]>> \o sub(name, i + 1)
  ELSE join(SubSeq(name, i, i + MatchLen(name, i) - 1))
         \o sub(name, i + MatchLen(name, i))

\* str.lstrip("_")
RECURSIVE lstrip(_)
lstrip(word) ==
  IF word # <<>> /\ Head(word) = "_" THEN lstrip(Tail(word)) ELSE word

\* camel_to_snake_case(name)
camel_to_snake_case(n) == lstrip(sub(n, 1))

\* table_name = camel_to_snake_case(cls.__name__) for a class named n
SetTableName(n) ==
  /\ classname' = n
  /\ table_name' = camel_to_snake_case(n)
  /\ ret' = [op |-> "name"]
  /\ UNCHANGED classes
  /\ UNCHANGED <<hostVars, pstates, connectors, engines, store>>

NextNaming ==
  \E n \in ClassNames : SetTableName(n) /\ UNCHANGED threadVars

SpecNaming == InitThreads /\ [][NextNaming]_vars


\* ----------------------------------------------------------- model classes
\* A class statement "class C(parent): ..." with db.Model's metaclass
\* DefaultMeta(NameMetaMixin, BindMetaMixin, DeclarativeMeta).  A class is
\* the record of what its own __dict__ holds; parent 0 is db.Model.  The
\* empty sequence stands for an attribute that is absent (or, for
\* __table__, present and None: has_table tells them apart).
NoName == <<>>

\* cls.__name__ of the classes of the model, in order of definition
ModelNameList == << <<"A", "a">>, <<"B", "a">>, <<"A", "b">>, <<"B", "b">> >>

\* the __tablename__ and the __table_prefix__ a declaration can carry
DeclaredTableName == <<"a", "a">>
DeclaredPrefix == <<"A", "b">>

\* the class object type.__new__ makes of a declaration
Declared(i, parent, abstract, tablename, prefix, bind_key, pk) ==
  [name |-> ModelNameList[i], parent |-> parent, abstract |-> abstract,
   tablename |-> tablename, prefix |-> prefix, bind_key |-> bind_key,
   pk |-> pk, has_table |-> FALSE, table |-> NoName]

\* cls.__mro__ without db.Model and object: the class, then its ancestors
RECURSIVE Ancestors(_, _)
Ancestors(cs, i) ==
  IF i = 0 THEN <<>> ELSE <<cs[i]>> \o Ancestors(cs, cs[i].parent)

Mro(cs, c) == <<c>> \o Ancestors(cs, c.parent)

\* getattr(cls, "__table__", None), from position k of the mro on
RECURSIVE GetAttrTable(_, _)
GetAttrTable(mro, k) ==
  IF k > Len(mro) THEN NoName
  ELSE IF mro[k].has_table THEN mro[k].table
  ELSE GetAttrTable(mro, k + 1)

\* getattr(cls, "__bind_key__", None), from position k of the mro on
RECURSIVE GetAttrBindKey(_, _)
GetAttrBindKey(mro, k) ==
  IF k > Len(mro) THEN Null
  ELSE IF mro[k].bind_key # Null THEN mro[k].bind_key
  ELSE GetAttrBindKey(mro, k + 1)

\* the loop of should_set_tablename over cls.__mro__, from position k on
RECURSIVE ScanTablename(_, _)
ScanTablename(mro, k) ==
  IF k > Len(mro) THEN TRUE
  ELSE IF mro[k].tablename = NoName THEN ScanTablename(mro, k + 1)
  ELSE IF mro[k].prefix # NoName THEN TRUE
  ELSE ~ (k = 1 \/ mro[k].abstract)

\* should_set_tablename(cls)
should_set_tablename(cs, c) ==
  IF c.abstract THEN FALSE ELSE ScanTablename(Mro(cs, c), 1)

\* "__table_prefix__" in cls.__dict__ and cls.__table_prefix__
table_prefix(cs, c) == c.prefix

\* NameMetaMixin.__init__ up to super().__init__: the generated table name
GenerateTablename(cs, c) ==
  IF should_set_tablename(cs, c)
    THEN [c EXCEPT !.tablename =
            (IF table_prefix(cs, c) # NoName
               THEN camel_to_snake_case(table_prefix(cs, c)) ELSE <<>>)
              \o camel_to_snake_case(c.name)]
    ELSE c

\* getattr(cls, "__tablename__", None), from position k of the mro on
RECURSIVE GetAttrTablename(_, _)
GetAttrTablename(mro, k) ==
  IF k > Len(mro) THEN NoName
  ELSE IF mro[k].tablename # NoName THEN mro[k].tablename
  ELSE GetAttrTablename(mro, k + 1)

\* the table name sqlalchemy's declarative scan takes for a class:
\* cls.__tablename__ when the class itself or a base that is not mapped
\* holds a __tablename__
ScannedTablename(mro) ==
  IF \E k \in 1..Len(mro) :
       mro[k].tablename # NoName /\ (k = 1 \/ mro[k].abstract)
    THEN GetAttrTablename(mro, 1)
    ELSE NoName

\* sa.Table(name, metadata, *columns): a new table, with no bind key in
\* its info
NewTable(tbls, c, tablename) ==
  [exc |-> "none", table |-> tablename, cls |-> c,
   tables |-> DictSet(tbls, tablename, Null)]

\* __table_cls__ that leaves __tablename__ on a single-table child
table_cls_keeps_name(cs, tbls, c, tablename) ==
  IF tablename \in DOMAIN tbls
    THEN IF c.pk
           THEN [exc |-> "InvalidRequestError", table |-> NoName, cls |-> c,
                 tables |-> tbls]
           ELSE [exc |-> "none", table |-> tablename, cls |-> c, tables |-> tbls]
  ELSE IF c.pk THEN NewTable(tbls, c, tablename)
  ELSE IF \A k \in 2..Len(Mro(cs, c)) : ~ Mro(cs, c)[k].has_table
    THEN NewTable(tbls, c, tablename)
  ELSE [exc |-> "none", table |-> NoName, cls |-> c, tables |-> tbls]

\* NameMetaMixin.__table_cls__(tablename, metadata, *columns) for class c:
\* the table (NoName for None), the class and the registry afterwards
table_cls(cs, tbls, c, tablename) ==
  IF tablename \in DOMAIN tbls
    THEN IF c.pk
           THEN [exc |-> "InvalidRequestError", table |-> NoName, cls |-> c,
                 tables |-> tbls]
           ELSE [exc |-> "none", table |-> tablename, cls |-> c, tables |-> tbls]
  ELSE IF c.pk THEN NewTable(tbls, c, tablename)
  ELSE IF \A k \in 2..Len(Mro(cs, c)) : ~ Mro(cs, c)[k].has_table
    THEN NewTable(tbls, c, tablename)
  ELSE [exc |-> "none", table |-> NoName,
        cls |-> [c EXCEPT !.tablename = NoName], tables |-> tbls]

\* what the mapper makes of the table __table_cls__ returned.  mapper_ok:
\* whether a table taken from the registry by name can be mapped.
MapTable(cs, tbls, c, t, mapper_ok) ==
  LET mapped == [exc |-> "none",
                 cls |-> [t.cls EXCEPT !.has_table = TRUE, !.table = t.table],
                 tables |-> t.tables]
  IN IF t.exc # "none" THEN [exc |-> t.exc, cls |-> c, tables |-> t.tables]
     ELSE IF t.table = NoName THEN mapped
     ELSE IF t.table \in DOMAIN tbls
       THEN IF mapper_ok THEN mapped
            ELSE [exc |-> "ArgumentError", cls |-> c, tables |-> t.tables]
     ELSE IF c.pk THEN mapped
     ELSE [exc |-> "ArgumentError", cls |-> c, tables |-> t.tables]

\* DeclarativeMeta.__init__ of sqlalchemy: an abstract class is not mapped;
\* any other class gets cls.__table__ = cls.__table_cls__(...)
DeclarativeMeta_init(cs, tbls, c, mapper_ok) ==
  IF c.abstract THEN [exc |-> "none", cls |-> c, tables |-> tbls]
  ELSE IF ScannedTablename(Mro(cs, c)) = NoName
    THEN IF GetAttrTable(Mro(cs, c), 2) = NoName
           THEN [exc |-> "InvalidRequestError", cls |-> c, tables |-> tbls]
           ELSE [exc |-> "none", cls |-> c, tables |-> tbls]
  ELSE CHOOSE out \in
         { MapTable(cs, tbls, c, t, mapper_ok)
           : t \in {table_cls(cs, tbls, c, ScannedTablename(Mro(cs, c)))} }
         : TRUE

\* BindMetaMixin.__init__: the bind key, super().__init__, then the bind
\* key written into the info of cls.__table__
BindMetaMixin_init(cs, tbls, c, mapper_ok) ==
  CHOOSE out \in
    { IF d.exc # "none" THEN d
      ELSE LET bind_key == GetAttrBindKey(Mro(cs, d.cls), 1)
               table == GetAttrTable(Mro(cs, d.cls), 1)
           IN [d EXCEPT !.tables =
                 IF bind_key # Null /\ table # NoName
                   THEN DictSet(d.tables, table, bind_key) ELSE d.tables]
      : d \in {DeclarativeMeta_init(cs, tbls, c, mapper_ok)} } : TRUE

\* NameMetaMixin.__init__: the table name, super().__init__, then
\* del cls.__table__ when no table was created
NameMetaMixin_init(cs, tbls, c, mapper_ok) ==
  CHOOSE out \in
    { IF b.exc # "none" THEN b
      ELSE [b EXCEPT !.cls =
              IF b.cls.tablename = NoName /\ b.cls.has_table
                  /\ b.cls.table = NoName
                THEN [b.cls EXCEPT !.has_table = FALSE] ELSE b.cls]
      : b \in {BindMetaMixin_init(cs, tbls, GenerateTablename(cs, c), mapper_ok)} }
    : TRUE

\* the class statement run by the host
DefineClass(parent, abstract, tablename, prefix, bind_key, pk) ==
  /\ Len(classes) < MaxClasses
  /\ parent \in 0..Len(classes)
  \* pk: the columns collected for the class hold a primary key; the host
  \* declares one on every class that starts a table
  /\ IF abstract THEN ~ pk
     ELSE pk \/ GetAttrTable(Ancestors(classes, parent), 1) # NoName
  /\ \E mapper_ok \in BOOLEAN :
       \E r \in {NameMetaMixin_init(
                   classes, tables,
                   Declared(Len(classes) + 1, parent, abstract, tablename,
                            prefix, bind_key, pk),
                   mapper_ok)} :
         /\ classes' = IF r.exc = "none" THEN Append(classes, r.cls) ELSE classes
         /\ tables' = r.tables
         /\ ret' = [op |-> "class", exc |-> r.exc, index |-> Len(classes) + 1,
                    decl |-> Declared(Len(classes) + 1, parent, abstract,
                                      tablename, prefix, bind_key, pk)]
  /\ UNCHANGED <<config, facade, ext, session, edits, returned, pstates,
                 connectors, engines, store, classname, table_name>>

NextModels ==
  \E parent \in 0..MaxClasses, abstract \in BOOLEAN,
     tablename \in {NoName, DeclaredTableName},
     prefix \in {NoName, DeclaredPrefix}, bind_key \in BindArgs,
     pk \in BOOLEAN :
    DefineClass(parent, abstract, tablename, prefix, bind_key, pk)
      /\ UNCHANGED threadVars

SpecModels == InitThreads /\ [][NextModels]_vars


\* ------------------------------------------------------------------ claims
\* the adapter the last operation worked on
RetAdapter == facade[ret.facade].adapter

\* C1: get_uri returns SQLALCHEMY_DATABASE_URI for the null bind key, the
\* configured uri U for a bind key present in SQLALCHEMY_BINDS, and fails
\* (no uri, no engine) for a non-null key that is not in the bind map, also
\* when there is no bind map at all.
C1_BindResolution ==
  (ret.op = "get_engine" /\ ret.connector # NoObj) =>
    LET binds == config[RetAdapter].binds
    IN /\ ret.bind = Null => ret.uri = config[RetAdapter].uri
       /\ (ret.bind # Null /\ ret.bind \in DOMAIN binds) =>
             ret.uri = binds[ret.bind]
       /\ (ret.bind # Null /\ ret.bind \notin DOMAIN binds) =>
             /\ ret.exc = "AssertionError"
             /\ ret.uri = "unresolved"
             /\ ret.engine = NoObj

\* a bind key outside a non-empty bind map has been asked for and refused
C1_Witness ==
  /\ ret.op = "get_engine"
  /\ ret.connector # NoObj
  /\ ret.bind = "bar"
  /\ ret.exc = "AssertionError"
  /\ DOMAIN config[RetAdapter].binds = {"foo"}

\* C2: two successive get_engine calls of a connector with the same
\* (uri, echo) pair return the same engine; a call after the uri or the echo
\* flag has changed returns a newly built engine, different from the one
\* returned before, and the connector caches it under the new pair.
C2_EngineCacheIdentity ==
  (ret.op = "get_engine" /\ ret.exc = "none" /\ ret.before.set) =>
    /\ ret.sig = ret.before.sig => ret.engine = ret.before.engine
    /\ ret.sig # ret.before.sig =>
         /\ ret.fresh
         /\ ret.engine # ret.before.engine
         /\ connectors[ret.connector].engine = ret.engine
         /\ connectors[ret.connector].connected_for = ret.sig

\* a connector has returned a second engine after its echo flag changed
C2_Witness ==
  /\ ret.op = "get_engine"
  /\ ret.exc = "none"
  /\ ret.before.set
  /\ ret.sig.echo # ret.before.sig.echo
  /\ ret.engine # ret.before.engine

\* the pool_size the user's options give: the facade's if it sets one, else
\* the adapter's
UserPoolSize(f, a) ==
  IF "pool_size" \in DOMAIN facade[f].engine_options
    THEN facade[f].engine_options["pool_size"]
    ELSE DictGet(config[a].engine_options, "pool_size")

\* C5 (as claimed): when the user's engine options set pool_size to 0 and
\* the bind's uri is a memory-resident sqlite target, get_engine fails and
\* no engine is built or cached for the bind.
C5_ZeroPoolInMemoryFails ==
  (/\ ret.op = "get_engine"
   /\ ret.connector # NoObj
   /\ ret.uri = MemoryURI
   /\ UserPoolSize(ret.facade, RetAdapter) = "0") =>
     /\ ret.exc # "none"
     /\ ~ ret.built
     /\ connectors[ret.connector].engine = NoObj

\* C6: every option handed to engine construction has the facade's value if
\* the facade's engine_options set the key, else the adapter's
\* SQLALCHEMY_ENGINE_OPTIONS value if set there, else the value the driver
\* hook or the echo flag derived; no other key is passed.
C6_OptionPrecedence ==
  (ret.op = "get_engine" /\ ret.built) =>
    LET passed == engines[ret.engine].options
        fopts == facade[ret.facade].engine_options
        aopts == config[RetAdapter].engine_options
        derived == HookOptions(make_url(ret.uri).value, ret.sig.echo)
    IN /\ DOMAIN passed = DOMAIN fopts \cup DOMAIN aopts \cup DOMAIN derived
       /\ \A k \in DOMAIN passed :
            passed[k] = IF k \in DOMAIN fopts THEN fopts[k]
                        ELSE IF k \in DOMAIN aopts THEN aopts[k]
                        ELSE derived[k]

\* an engine was built with a pool class that the hook, the adapter and the
\* facade each set, to three different values
C6_Witness ==
  /\ ret.op = "get_engine"
  /\ ret.built
  /\ "poolclass" \in DOMAIN facade[ret.facade].engine_options
  /\ "poolclass" \in DOMAIN config[RetAdapter].engine_options
  /\ "poolclass" \in DOMAIN HookOptions(make_url(ret.uri).value, ret.sig.echo)
  /\ facade[ret.facade].engine_options["poolclass"]
        # config[RetAdapter].engine_options["poolclass"]
  /\ engines[ret.engine].options["poolclass"]
        # HookOptions(make_url(ret.uri).value, ret.sig.echo)["poolclass"]

\* the engine the connector cache of facade f's adapter holds for bind
CachedEngine(f, bind) ==
  LET cid == pstates[ext[facade[f].adapter]].connectors[bind]
  IN IF cid = NoObj THEN NoObj ELSE connectors[cid].engine

\* C7: create_all and drop_all with bind "__all__" visit the default bind
\* and every configured bind key, and apply the operation on each bind's
\* engine to exactly the tables whose bind key is that bind.  So after
\* create_all a table is in the store of its own bind only, after drop_all
\* the store of every bind visited is empty, and after a drop_all that
\* follows a create_all on empty stores no store holds a table.
C7_PerBindTableOperations ==
  /\ (ret.op \in {"create_all", "drop_all"} /\ ret.exc = "none") =>
       /\ Len(ret.calls) = 1 + Cardinality(DOMAIN config[RetAdapter].binds)
       /\ {ret.calls[i].bind : i \in 1..Len(ret.calls)}
             = {Null} \cup DOMAIN config[RetAdapter].binds
       /\ \A i \in 1..Len(ret.calls) :
            /\ ret.calls[i].engine # NoObj
            /\ ret.calls[i].engine = CachedEngine(ret.facade, ret.calls[i].bind)
            /\ ret.calls[i].tables
                  = {t \in DOMAIN tables : tables[t] = ret.calls[i].bind}
  /\ (ret.op = "create_all" /\ ret.exc = "none") =>
       /\ \A i \in 1..Len(ret.calls), t \in DOMAIN tables :
            t \in store[ret.calls[i].engine] <=> tables[t] = ret.calls[i].bind
       /\ \A e \in 1..Len(store) :
            \A t \in store[e] : engines[e].bind = tables[t]
  /\ (ret.op = "drop_all" /\ ret.exc = "none") =>
       /\ \A i \in 1..Len(ret.calls) : store[ret.calls[i].engine] = {}
       /\ ret.follows => AllStoresEmpty

\* create_all has put the tables of test_basic_binds into three stores
C7_Witness ==
  /\ ret.op = "create_all"
  /\ ret.exc = "none"
  /\ Len(ret.calls) = 3
  /\ store[CachedEngine(ret.facade, "foo")] = {"foo"}
  /\ store[CachedEngine(ret.facade, "bar")] = {"bar"}
  /\ store[CachedEngine(ret.facade, Null)] = {"baz"}

\* C8 (as claimed): the dict get_binds returns has an entry for every table
\* of the metadata registry, and maps each table to the engine get_engine
\* returns for the table's bind key.
C8_GetBindsFullMap ==
  (ret.op = "get_binds" /\ ret.exc = "none") =>
    /\ DOMAIN ret.binds = DOMAIN tables
    /\ \A t \in DOMAIN ret.binds :
         ret.binds[t]
           = Philosophy_get_engine(World, ret.facade, Null, tables[t], TRUE).engine

\* C9: for a mapper whose table carries a non-null bind key K, get_bind
\* takes the bind-key path and returns the engine the connector cache holds
\* for K, the one get_engine(bind=K) returns; with no mapper or a null bind
\* key it takes the default path.  The synchronous and the asynchronous
\* session make the same choice for the same input.
C9_SessionGetBindRouting ==
  /\ ret.op = "get_bind" =>
       LET K == IF ret.mapper = Null THEN Null ELSE tables[ret.mapper]
       IN /\ K # Null =>
               /\ ret.path = "bind_key"
               /\ ret.exc = "none" =>
                    /\ ret.engine # NoObj
                    /\ ret.engine = CachedEngine(ret.facade, K)
                    /\ ret.engine
                         = Philosophy_get_engine(World, ret.facade, Null, K, TRUE).engine
          /\ K = Null => ret.path = "default"
  /\ session.made =>
       \A mapper \in {Null} \cup DOMAIN tables, external_ok \in BOOLEAN :
         LET sync == Session_get_bind(World, session, mapper, external_ok)
             async == AsyncSession_get_bind(World, session, mapper, external_ok)
         IN sync.path = async.path /\ sync.exc = async.exc
              /\ sync.engine = async.engine

\* an asynchronous session has routed the table bound to foo to an engine
\* built after the session was made
C9_Witness ==
  /\ ret.op = "get_bind"
  /\ ret.exc = "none"
  /\ ret.mapper = "foo"
  /\ session.async_
  /\ ret.engine # session.binds["foo"]

\* the engines built for a bind key
EnginesFor(bind) == {e \in 1..Len(engines) : engines[e].bind = bind}

\* C3: with threads calling get_engine of one facade and the configuration
\* left alone, for every bind key at most one thread is building an engine
\* at any time, at most one engine is ever built, and a caller that has
\* been handed an engine was handed that one.
C3_SerializedConstruction ==
  \A bind \in BindArgs :
    /\ Cardinality({t \in Threads : pc[t] = "build" /\ frame[t].bind = bind}) <= 1
    /\ Cardinality(EnginesFor(bind)) <= 1
    /\ \A t \in Threads :
         received[t][bind] # NoObj => EnginesFor(bind) = {received[t][bind]}

\* one thread has returned from get_engine(bind="foo") with the engine the
\* other thread built
C3_Witness ==
  /\ ret.op = "thread_get_engine"
  /\ ret.bind = "foo"
  /\ ret.exc = "none"
  /\ \A t \in Threads : received[t]["foo"] = ret.engine
  /\ Cardinality(EnginesFor("foo")) = 1

\* C4 (as claimed): there is one connector for every (adapter, bind key)
\* pair, never a second one, whichever facade on the adapter is called, and
\* the callers for a pair have all been handed the same engine.
C4_OneConnectorPerPair ==
  /\ \A c1, c2 \in 1..Len(connectors) :
       (connectors[c1].adapter = connectors[c2].adapter
          /\ connectors[c1].bind = connectors[c2].bind) => c1 = c2
  /\ \A t1, t2 \in Threads, bind \in BindArgs :
       (received[t1][bind] # NoObj /\ received[t2][bind] # NoObj)
          => received[t1][bind] = received[t2][bind]

\* C10 (as claimed): the table name camel_to_snake_case gives a class name
\* of letters and digits holds no capital letter and does not start with an
\* underscore.
C10_SnakeCaseName ==
  classname # <<>> =>
    /\ \A i \in 1..Len(table_name) : table_name[i] \notin Capitals
    /\ table_name # <<>> /\ Head(table_name) # "_"

\* C11: naming a class and naming the result again give the same name:
\* camel_to_snake_case(camel_to_snake_case(N)) = camel_to_snake_case(N).
C11_NamingIdempotent ==
  classname # <<>> => camel_to_snake_case(table_name) = table_name

\* a name with a capital run inside it has been turned into two segments
C11_Witness ==
  /\ classname = <<"a", "A", "B", "a">>
  /\ table_name = <<"a", "_", "a", "_", "b", "a">>

\* the class statement that has just defined the class `c`
Defined(c) == classes' = Append(classes, c) /\ ret'.op = "class"

\* the table name the declaration of the class statement comes to
ComputedName ==
  ScannedTablename(Mro(classes, GenerateTablename(classes, ret'.decl)))

\* the table the parent of `c` is mapped to (NoName: none)
ParentTable(c) == GetAttrTable(Ancestors(classes, c.parent), 1)

\* C12: a subclass of a class that is mapped to a table, whose computed
\* table name is not yet in the metadata, gets a new table of its own,
\* distinct from the parent's, exactly when it declares a primary key;
\* without one no table is added, the class is left without __tablename__
\* and __table__ of its own and reads the parent's table, also when it
\* declared a table name.
C12_JoinedOrSingleTable ==
  [][\A c \in {classes'[i] : i \in DOMAIN classes'} :
       (/\ Defined(c)
        /\ ~ c.abstract
        /\ ParentTable(c) # NoName
        /\ ComputedName \notin DOMAIN tables)
       => IF c.pk
            THEN /\ c.has_table /\ c.table = ComputedName
                 /\ c.table # ParentTable(c)
                 /\ DOMAIN tables' = DOMAIN tables \cup {c.table}
            ELSE /\ DOMAIN tables' = DOMAIN tables
                 /\ ~ c.has_table /\ c.tablename = NoName
                 /\ GetAttrTable(Mro(classes, c), 1) = ParentTable(c)]_vars

\* a child without primary key that declared a table name of its own has
\* been defined on a parent mapped to another table
C12_Witness ==
  /\ ret.op = "class" /\ ret.exc = "none" /\ ret.index = 2
  /\ Len(classes) = 2
  /\ classes[2].parent = 1 /\ ~ classes[2].pk /\ ~ classes[2].abstract
  /\ ret.decl.tablename = DeclaredTableName
  /\ classes[1].has_table /\ classes[1].table # DeclaredTableName
  /\ DOMAIN tables = {classes[1].table}
  /\ ~ classes[2].has_table /\ classes[2].tablename = NoName

\* C18: the statement that defines a subclass leaves the bind key of every
\* table already in the metadata as it was, whatever __bind_key__ the
\* subclass declares.
C18_BindKeyFrame ==
  [][\A c \in {classes'[i] : i \in DOMAIN classes'} :
       (Defined(c) /\ c.parent # 0)
       => \A t \in DOMAIN tables : tables'[t] = tables[t]]_vars

\* the class the table `t` was created for: the first one mapped to it
CreatedFor(c, t) ==
  /\ c.has_table /\ c.table = t
  /\ \A i \in DOMAIN classes :
       (classes[i].has_table /\ classes[i].table = t)
       => \E j \in 1..i : classes[j] = c

\* C13: the table created for a class carries the bind key the class
\* declares or inherits from its nearest ancestor that declares one, abstract
\* bases included, and no bind key (null) when none in the chain declares
\* one; a single-table child reads that same table and bind key.
C13_BindKeyPropagation ==
  \A i \in DOMAIN classes :
    CreatedFor(classes[i], classes[i].table)
    => tables[classes[i].table] = GetAttrBindKey(Mro(classes, classes[i]), 1)

\* getattr(cls, "__table_prefix__", None), from position k of the mro on
RECURSIVE GetAttrTablePrefix(_, _)
GetAttrTablePrefix(mro, k) ==
  IF k > Len(mro) THEN NoName
  ELSE IF mro[k].prefix # NoName THEN mro[k].prefix
  ELSE GetAttrTablePrefix(mro, k + 1)

\* C14: when a table name is generated for a class and the class or one
\* of its ancestors declares __table_prefix__, the name is the snake-cased
\* prefix followed at once by the snake-cased class name.
C14_TablePrefix ==
  (ret.op = "class" /\ ret.exc = "none")
  => LET c == classes[ret.index]
         table_prefix_ == GetAttrTablePrefix(Mro(classes, ret.decl), 1)
     IN (/\ should_set_tablename(classes, ret.decl)
         /\ table_prefix_ # NoName
         /\ c.tablename # NoName)
        => c.tablename = camel_to_snake_case(table_prefix_)
                           \o camel_to_snake_case(c.name)

\* the (bind key, uri, echo) an engine was built for
EngineSignature(e) ==
  [bind |-> engines[e].bind, uri |-> engines[e].uri,
   echo |-> "echo" \in DOMAIN engines[e].options]

\* C15 as stated: over get_engine calls and edits of the uri and the echo
\* flag, no two engines are ever built for one (bind key, uri, echo).
C15_OneEnginePerSignature ==
  \A e1, e2 \in 1..Len(engines) :
    EngineSignature(e1) = EngineSignature(e2) => e1 = e2

\* the engine built for a bind key next after engine e1
NextEngineFor(bind, e1, e2) ==
  /\ e1 \in EnginesFor(bind) /\ e2 \in EnginesFor(bind) /\ e1 < e2
  /\ \A e \in EnginesFor(bind) : ~ (e1 < e /\ e < e2)

\* C15, amended: a connector keeps the one engine it built last.  An engine
\* is built only when the configured (uri, echo) differs from the pair the
\* connector's last engine was built for, so two engines built one after
\* the other for a bind key differ in uri or echo; and get_engine returns
\* the last engine built for the bind key, built for the configured pair.
C15_OneEnginePerSignatureChange ==
  /\ \A bind \in BindArgs : \A e1, e2 \in 1..Len(engines) :
       NextEngineFor(bind, e1, e2) => EngineSignature(e1) # EngineSignature(e2)
  /\ (ret.op = "get_engine" /\ ret.exc = "none")
     => /\ ret.engine \in EnginesFor(ret.bind)
        /\ \A e \in EnginesFor(ret.bind) : e <= ret.engine
        /\ EngineSignature(ret.engine) =
             [bind |-> ret.bind, uri |-> ret.sig.uri, echo |-> ret.sig.echo]

\* the uri of a bind has been changed and changed back, and get_engine has
\* built a third engine, for the signature of the first
C15_Witness ==
  /\ ret.op = "get_engine" /\ ret.exc = "none" /\ ret.built
  /\ Cardinality(EnginesFor(ret.bind)) = 3
  /\ \E e \in EnginesFor(ret.bind) :
       e # ret.engine /\ EngineSignature(e) = EngineSignature(ret.engine)

\* C16: init_adapter leaves the adapter field of a facade constructed
\* without an adapter (db1) as it was, and once such a facade has run
\* init_adapter(A), its get_engine(A, bind) with a bind key A configures
\* returns an engine built from A's configuration.
C16_ExplicitAdapter ==
  /\ (ret.op = "init_adapter" /\ ret.facade = "db1")
     => facade["db1"].adapter = Null
  /\ (/\ ret.op = "get_engine"
      /\ facade[ret.facade].adapter = Null
      /\ ext[ret.adapter] # NoObj
      /\ pstates[ext[ret.adapter]].db = ret.facade
      /\ get_uri(ret.adapter, ret.bind).exc = "none")
     => /\ ret.exc \in {"none", "EngineError"}
        /\ ret.exc = "none"
             => /\ connectors[ret.connector].adapter = ret.adapter
                /\ engines[ret.engine].uri = get_uri(ret.adapter, ret.bind).value

\* the call of thread t has failed, or fails in this step, on connector cid
FailingOn(t, cid) ==
  \/ frame[t].exc # "none" /\ frame[t].connector = cid
  \/ frame'[t].exc # "none" /\ frame'[t].connector = cid

\* every connector's cached engine is the one built for its recorded pair
CacheWhole ==
  \A cid \in DOMAIN connectors :
    LET c == connectors[cid]
    IN /\ c.connected_for.set <=> c.engine # NoObj
       /\ c.engine # NoObj
            => /\ c.engine \in DOMAIN engines
               /\ engines[c.engine].uri = c.connected_for.uri
               /\ engines[c.engine].bind = c.bind

\* a thread outside get_engine holds neither the facade lock nor a
\* connector lock
LocksReleased ==
  \A t \in Threads :
    pc[t] = "idle"
    => /\ \A f \in Facades : engine_lock[f] # t
       /\ \A cid \in DOMAIN connectors : connectors[cid].lock # t

\* C17: a get_engine call that fails in resolving the uri or in building
\* the engine leaves the connector's cached engine and recorded (uri, echo)
\* pair, and the engines built so far, as they were; when the call is over
\* the thread holds neither lock; and the cache is never left with a pair
\* recorded for an engine that was not built, so the next call for the bind
\* key builds again and a call that returns hands back a built engine.
C17_FailureAtomicity ==
  /\ [][\A t \in Threads : \A cid \in DOMAIN connectors :
          FailingOn(t, cid)
          => /\ connectors'[cid].engine = connectors[cid].engine
             /\ connectors'[cid].connected_for = connectors[cid].connected_for
             /\ engines' = engines]_vars
  /\ [](LocksReleased /\ CacheWhole)
  /\ []((ret.op = "thread_get_engine" /\ ret.exc = "none")
         => ret.engine \in DOMAIN engines)

\* the construction of an engine has failed in one call, the cache holds
\* nothing for the bind key, and a later call is building again
C17_Witness ==
  /\ ret.op = "thread_get_engine" /\ ret.exc = "EngineError"
  /\ \E t \in Threads :
       /\ pc[t] = "build" /\ frame[t].bind = ret.bind /\ t # ret.thread
       /\ connectors[frame[t].connector].engine = NoObj
       /\ ~ connectors[frame[t].connector].connected_for.set
  /\ pc[ret.thread] = "idle"
  /\ LocksReleased

====
